---- MODULE Spec2Model ----
(***************************************************************************)
(* Model of the contract-review pipeline of src/app.py: the paragraph      *)
(* indexer, the paragraph matcher, the annotator that rewrites the packaged *)
(* document, the analysis engine's failure classification, and the          *)
(* analyze / download request handlers.                                     *)
(***************************************************************************)
EXTENDS Integers, Sequences, FiniteSets, TLC

(***************************************************************************)
(* Bounds of the model                                                      *)
(***************************************************************************)
\* largest number of w:p elements in a document body drawn by Init
MaxParas == 3
\* largest number of entries of analysis['issues']
MaxIssues == 2
\* largest number of entries of analysis['missing_clauses']
MaxMissing == 1
\* how many times an annotated output is fed back as the next input
MaxRounds == 2

(***************************************************************************)
(* Text                                                                     *)
(* A string is a sequence over {" ", "a"}; str.strip() is modelled by what  *)
(* it does to leading and trailing blanks.                                  *)
(***************************************************************************)
RECURSIVE lstrip(_)
lstrip(s) ==
    IF s = <<>> THEN <<>>
    ELSE IF Head(s) = " " THEN lstrip(Tail(s)) ELSE s

RECURSIVE rstrip(_)
rstrip(s) ==
    IF s = <<>> THEN <<>>
    ELSE IF s[Len(s)] = " " THEN rstrip(SubSeq(s, 1, Len(s) - 1)) ELSE s

strip(s) == rstrip(lstrip(s))

(***************************************************************************)
(* Document body                                                            *)
(* A paragraph (w:p) is the sequence of its children.  A child is a text    *)
(* run (k = "t", carrying the text of its w:t), a comment range start, a    *)
(* comment range end, or a comment reference run (k = "ref", a w:r holding  *)
(* only w:commentReference, hence no w:t).                                  *)
(***************************************************************************)
TextRun(s) == [k |-> "t", text |-> s, id |-> -1]
Marker(kind, n) == [k |-> kind, text |-> <<>>, id |-> n]

BlankPara == <<TextRun(<<" ">>)>>
TextPara == <<TextRun(<<" ", "a">>)>>
ParaKinds == {BlankPara, TextPara}

RECURSIVE SeqsUpTo(_, _)
SeqsUpTo(S, n) ==
    IF n = 0 THEN {<<>>}
    ELSE LET shorter == SeqsUpTo(S, n - 1)
         IN  shorter \cup {Append(s, x) : s \in {t \in shorter : Len(t) = n - 1}, x \in S}

Bodies == SeqsUpTo(ParaKinds, MaxParas)

\* ''.join([t.text or '' for t in para.findall('.//w:t')])
RECURSIVE para_text(_)
para_text(para) ==
    IF para = <<>> THEN <<>>
    ELSE (IF Head(para).k = "t" THEN Head(para).text ELSE <<>>) \o para_text(Tail(para))

(***************************************************************************)
(* Packaged document (.docx container)                                      *)
(*   exists     the path names a readable file                              *)
(*   zip        the file is a zip archive                                   *)
(*   bodyOk     word/document.xml is present and well formed                *)
(*   paras      the w:p elements of the body, in document order             *)
(*   typesOk    [Content_Types].xml is present                              *)
(*   typesDecl  number of Override entries naming /word/comments.xml        *)
(*   typesClose the literal text "</Types>" occurs in the manifest          *)
(*   relsOk     word/_rels/document.xml.rels is present                     *)
(*   rels       the Relationship entries, in file order                     *)
(*   relsClose  the literal text "</Relationships>" occurs in the file      *)
(*   comments   the w:id values of word/comments.xml, in file order         *)
(* A relationship is [rid, n, dq, target]: rid says the Id has the form     *)
(* rId<digits> with n the number; dq says the attribute is written with     *)
(* double quotes (Id="..."), the only form the regular expression of line   *)
(* 572 matches; target is "comments" when Target names comments.xml.        *)
(***************************************************************************)
Rel(rid, n, dq, target) == [rid |-> rid, n |-> n, dq |-> dq, target |-> target]

NoFile ==
    [exists |-> FALSE, zip |-> FALSE, bodyOk |-> FALSE, paras |-> <<>>,
     typesOk |-> FALSE, typesDecl |-> 0, typesClose |-> FALSE,
     relsOk |-> FALSE, rels |-> <<>>, relsClose |-> FALSE, comments |-> <<>>]

PlainDocx(paras) ==
    [exists |-> TRUE, zip |-> TRUE, bodyOk |-> TRUE, paras |-> paras,
     typesOk |-> TRUE, typesDecl |-> 0, typesClose |-> TRUE,
     relsOk |-> TRUE, rels |-> <<Rel(TRUE, 1, TRUE, "other")>>, relsClose |-> TRUE,
     comments |-> <<>>]

(***************************************************************************)
(* Paragraph Indexer: extract_paragraphs_from_docx (lines 306-337)          *)
(* enumerate() numbers every w:p element; the entry of a kept paragraph     *)
(* carries that number.  A body that cannot be parsed yields [].            *)
(***************************************************************************)
RECURSIVE CollectParagraphs(_, _)
CollectParagraphs(paras, idx) ==
    IF idx >= Len(paras) THEN <<>>
    ELSE LET text == strip(para_text(paras[idx + 1]))
             rest == CollectParagraphs(paras, idx + 1)
         IN  IF text # <<>>
             THEN <<[index |-> idx, text |-> text, element |-> idx]>> \o rest
             ELSE rest

extract_paragraphs_from_docx(bodyOk, paras) ==
    IF bodyOk THEN CollectParagraphs(paras, 0) ELSE <<>>

(***************************************************************************)
(* JSON values the matcher backend may map a finding to.  A float carries   *)
(* twice its value in v (so v = 3 is 1.5 and v = 2 is 1.0); a bool carries  *)
(* 0 or 1, the integer Python takes it for.                                 *)
(***************************************************************************)
JInt(n) == [t |-> "int", v |-> n]
JFloat(twice) == [t |-> "float", v |-> twice]
JBool(n) == [t |-> "bool", v |-> n]
JStr == [t |-> "str", v |-> 0]
JNull == [t |-> "null", v |-> 0]

\* Python orders int, bool and float against an int; anything else raises TypeError
IsNumber(x) == x.t \in {"int", "bool", "float"}
Twice(x) == IF x.t = "float" THEN x.v ELSE 2 * x.v
\* only int (and bool, a subclass of int) can index a list
IsIndex(x) == x.t \in {"int", "bool"}

(***************************************************************************)
(* Analysis result as the annotator and matcher read it: the number of      *)
(* entries of analysis['issues'] and of analysis['missing_clauses'] (0 when *)
(* the key is absent).                                                      *)
(***************************************************************************)
Findings(ni, nm) == [issues |-> ni, missing |-> nm]

\* all_items of lines 353-363: issues first, then missing clauses, each 0-based
all_items(analysis) ==
    [j \in 1..analysis.issues |-> <<"issue", j - 1>>]
        \o [j \in 1..analysis.missing |-> <<"missing", j - 1>>]

ItemKeys(analysis) == {all_items(analysis)[j] : j \in DOMAIN all_items(analysis)}

EmptyMap == [key \in {} |-> JNull]

(***************************************************************************)
(* Paragraph Matcher: match_issues_to_paragraphs (lines 340-426)            *)
(* reply.t is what the backend call yields:                                 *)
(*   "nokey"       get_openai_client raises ValueError (line 31)            *)
(*   "exc"         the completion call raises (backend error, timeout)      *)
(*   "nochoices", "nocontent"   ValueError of lines 394-397                 *)
(*   "unparsable"  json.loads raises                                        *)
(*   "array", "string", "number"   a JSON value that is no object: the key  *)
(*                 lookup finds nothing or raises TypeError                 *)
(*   "object"      a JSON object, reply.map, keyed by (type, ordinal) for   *)
(*                 the labels "Issue i" and "Missing i"                     *)
(* Everything raised inside the try block ends in "return {}" (line 426).   *)
(***************************************************************************)
MatcherRaises(paragraphs, analysis, reply) ==
    \/ reply.t # "object"
    \/ \E key \in ItemKeys(analysis) \cap DOMAIN reply.map : ~IsNumber(reply.map[key])

\* line 419: para_idx >= 0 and para_idx < len(paragraphs)
AcceptedIndex(para_idx, paragraphs) ==
    Twice(para_idx) >= 0 /\ Twice(para_idx) < 2 * Len(paragraphs)

match_issues_to_paragraphs(paragraphs, analysis, reply) ==
    IF paragraphs = <<>> THEN EmptyMap
    ELSE IF MatcherRaises(paragraphs, analysis, reply) THEN EmptyMap
    ELSE LET present == ItemKeys(analysis) \cap DOMAIN reply.map
             kept == {key \in present : AcceptedIndex(reply.map[key], paragraphs)}
         IN  [key \in kept |-> reply.map[key]]

(***************************************************************************)
(* Annotator: add_comments_to_docx (lines 429-600)                          *)
(***************************************************************************)
\* line 480: issue_matches.get(('issue', i), 0)
IssueTarget(issue_matches, i) ==
    IF <<"issue", i>> \in DOMAIN issue_matches THEN issue_matches[<<"issue", i>>] ELSE JInt(0)

\* line 497: len(paragraphs) - 1 if paragraphs else 0
MissingTarget(paragraphs, issue_matches, i) ==
    IF paragraphs # <<>> THEN JInt(Len(paragraphs) - 1) ELSE JInt(0)

\* comment_insertions of lines 465-499: (para_idx, comment_id), comment_id counting on
comment_insertions(paragraphs, issue_matches, analysis) ==
    [j \in 1..analysis.issues |->
        [para |-> IssueTarget(issue_matches, j - 1), id |-> j - 1]]
    \o [j \in 1..analysis.missing |->
        [para |-> MissingTarget(paragraphs, issue_matches, j - 1),
         id |-> analysis.issues + j - 1]]

\* the three markers all appended, none put before the children
AppendMarkers(para, comm_id) ==
    para \o <<Marker("start", comm_id), Marker("end", comm_id), Marker("ref", comm_id)>>

\* lines 522-524: start marker first, end marker and reference run last
InsertMarkers(para, comm_id) ==
    <<Marker("start", comm_id)>> \o para \o <<Marker("end", comm_id), Marker("ref", comm_id)>>

\* line 505: the insertion is skipped unless para_idx < len(para_elements)
InsertionApplies(para_idx, paras) == Twice(para_idx) < 2 * Len(paras)

\* line 506: para_elements[para_idx] raises for a float and for an index out of range
InsertionRaises(para_idx, paras) ==
    \/ ~IsIndex(para_idx)
    \/ para_idx.v < 0 - Len(paras)

ElementAt(para_idx, paras) ==
    IF para_idx.v >= 0 THEN para_idx.v + 1 ELSE Len(paras) + para_idx.v + 1

\* the loop of lines 504-524 over comment_insertions, from entry j on
RECURSIVE InsertAll(_, _, _)
InsertAll(paras, insertions, j) ==
    IF j > Len(insertions) THEN [ok |-> TRUE, paras |-> paras]
    ELSE LET ins == insertions[j]
         IN  IF ~InsertionApplies(ins.para, paras)
             THEN InsertAll(paras, insertions, j + 1)
             ELSE IF InsertionRaises(ins.para, paras)
             THEN [ok |-> FALSE, paras |-> paras]
             ELSE LET at == ElementAt(ins.para, paras)
                  IN  InsertAll([paras EXCEPT ![at] = InsertMarkers(paras[at], ins.id)],
                                insertions, j + 1)

\* lines 534-544: one w:comment per entry of comments, ids counting from 0
CommentsPart(analysis) == [j \in 1..(analysis.issues + analysis.missing) |-> j - 1]

\* lines 556-562: 'comments.xml' not in content_types, then replace('</Types>', ...)
PatchContentTypes(d) ==
    IF d.typesDecl = 0 /\ d.typesClose THEN d.typesDecl + 1 ELSE d.typesDecl

\* lines 572-573: re.findall(r'Id="rId(\d+)"', rels), max or 0
RECURSIVE MaxRid(_)
MaxRid(rels) ==
    IF rels = <<>> THEN 0
    ELSE LET rest == MaxRid(Tail(rels))
             r == Head(rels)
         IN  IF r.rid /\ r.dq /\ r.n > rest THEN r.n ELSE rest

MentionsComments(rels) == \E j \in DOMAIN rels : rels[j].target = "comments"

\* lines 569-581: 'comments.xml' not in rels, then replace('</Relationships>', ...)
PatchRels(d) ==
    IF ~MentionsComments(d.rels) /\ d.relsClose
    THEN Append(d.rels, Rel(TRUE, MaxRid(d.rels) + 1, TRUE, "comments"))
    ELSE d.rels

\* the steps of the try block that can raise, in order
UnpackFails(d) == ~d.exists \/ ~d.zip
ParseFails(d) == ~d.bodyOk

\* shutil.copy(docx_path, output_path) of line 596
CopyRaises(d, outWritable) == ~d.exists \/ ~outWritable

(***************************************************************************)
(* The whole call.  d is the file at docx_path, reply the matcher backend's *)
(* reply, outWritable whether output_path can be written, prev the file at  *)
(* output_path before the call.  ret is "true", "false", or "raised" when   *)
(* the exception handler's own copy raises to the caller.                   *)
(***************************************************************************)
add_comments_to_docx(d, analysis, reply, outWritable, prev) ==
    LET paragraphs == extract_paragraphs_from_docx(d.bodyOk, d.paras)
        issue_matches == match_issues_to_paragraphs(paragraphs, analysis, reply)
        insertions == comment_insertions(paragraphs, issue_matches, analysis)
        inserted == InsertAll(d.paras, insertions, 1)
        annotated == [d EXCEPT !.paras = inserted.paras,
                               !.comments = CommentsPart(analysis),
                               !.typesDecl = PatchContentTypes(d),
                               !.rels = PatchRels(d)]
        failed == \/ UnpackFails(d)
                  \/ ParseFails(d)
                  \/ ~inserted.ok
                  \/ ~d.typesOk
                  \/ ~d.relsOk
                  \/ ~outWritable
        reached == ~UnpackFails(d) /\ ~ParseFails(d)
    IN  [ret |-> IF ~failed THEN "true"
                 ELSE IF CopyRaises(d, outWritable) THEN "raised" ELSE "false",
         out |-> IF ~failed THEN annotated
                 ELSE IF CopyRaises(d, outWritable) THEN prev ELSE d,
         paragraphs |-> IF reached THEN paragraphs ELSE <<>>,
         issue_matches |-> IF reached THEN issue_matches ELSE EmptyMap,
         matched |-> reached,
         insertions |-> IF reached THEN insertions ELSE <<>>]

(***************************************************************************)
(* Analysis Engine: analyze_contract_with_ai (lines 157-303)                *)
(* The model output is a sequence of tokens:                                *)
(*   "FENCE" a code fence (3 backticks)   "json"  the word json             *)
(*   "w"     a word of prose          " "     white space                   *)
(*   a payload token, the text of one complete JSON value:                  *)
(*     "OBJ"  an object with every field of the requested schema            *)
(*     "PART" an object lacking fields of the schema                        *)
(*     "ERR"  an object with an "error" key                                 *)
(*     "ARR"  an array        "STR"  a string        "NUM"  a number        *)
(* so that a fence labelled json is "FENCE" followed at once by "json".     *)
(***************************************************************************)
Payloads == {"OBJ", "PART", "ERR", "ARR", "STR", "NUM"}
Tokens == {"FENCE", "json", "w", " "} \cup Payloads

\* positions where a fence labelled json starts, and where a fence starts
LabelledFences(text) ==
    {j \in DOMAIN text : text[j] = "FENCE" /\ j + 1 \in DOMAIN text /\ text[j + 1] = "json"}
Fences(text) == {j \in DOMAIN text : text[j] = "FENCE"}

Least(S) == CHOOSE n \in S : \A m \in S : n <= m

\* text.split(sep)[1] for a separator that occurs: from the end of its first
\* occurrence (position at, width tokens) to its next occurrence or the end
SecondPart(text, starts, at, width) ==
    LET later == {j \in starts : j >= at + width}
        stop == IF later = {} THEN Len(text) ELSE Least(later) - 1
    IN  SubSeq(text, at + width, stop)

\* lines 261-268 alone: the first fenced block, whatever its label
StripFirstFence(text) ==
    IF Fences(text) # {}
    THEN SecondPart(text, Fences(text), Least(Fences(text)), 1)
    ELSE text

\* lines 256-270
StripFences(text) ==
    IF LabelledFences(text) # {}
    THEN LET after_json == SecondPart(text, LabelledFences(text), Least(LabelledFences(text)), 2)
         IN  IF Fences(after_json) # {}
             THEN SubSeq(after_json, 1, Least(Fences(after_json)) - 1)
             ELSE after_json
    ELSE IF Fences(text) # {}
    THEN SecondPart(text, Fences(text), Least(Fences(text)), 1)
    ELSE text

\* json.loads(response_text.strip()): one JSON value and nothing else
JsonParses(text) == Len(strip(text)) = 1 /\ strip(text)[1] \in Payloads
JsonValue(text) == strip(text)[1]

(***************************************************************************)
(* A failure of the backend call has a kind (what went wrong) and a message,*)
(* of which only the groups of words the handler looks for matter:          *)
(*   "timeout"     the message has "timeout" or "timed out"                 *)
(*   "network"     it has "connection" or "network"                         *)
(*   "rate_limit"  it has "rate_limit"                                      *)
(*   "api"         it has "api" or "openai"                                 *)
(***************************************************************************)
FailureWords == {"timeout", "network", "rate_limit", "api"}

\* lines 289-303: the first test that matches decides
ClassifyFailure(words) ==
    IF "timeout" \in words THEN "RequestTimeout"
    ELSE IF "network" \in words THEN "NetworkError"
    ELSE IF "rate_limit" \in words THEN "RateLimited"
    ELSE IF "api" \in words THEN "BackendServiceError"
    ELSE "UnknownAnalysisError"

AiError(cls, raw) == [tag |-> "error", cls |-> cls, raw |-> raw, value |-> "none", calls |-> 1]
AiValue(v) == [tag |-> "value", cls |-> "none", raw |-> <<>>, value |-> v, calls |-> 1]

(***************************************************************************)
(* ai is what the backend does for the one call of line 241:                *)
(*   "nokey"      get_openai_client raises ValueError, no call is made      *)
(*   "exc"        the call raises, ai.kind and ai.words describe it         *)
(*   "nochoices", "nocontent"   lines 248-251                               *)
(*   "text"       the completion ai.text                                    *)
(***************************************************************************)
analyze_contract_with_ai(ai) ==
    IF ai.t = "nokey" THEN [AiError("ValueError", <<>>) EXCEPT !.calls = 0]
    ELSE IF ai.t = "exc" THEN AiError(ClassifyFailure(ai.words), <<>>)
    ELSE IF ai.t \in {"nochoices", "nocontent"} THEN AiError("EmptyModelResponse", <<>>)
    ELSE LET response_text == StripFences(ai.text)
         IN  IF JsonParses(response_text)
             THEN AiValue(JsonValue(response_text))
             ELSE AiError("AnalysisParseError", response_text)

(***************************************************************************)
(* State                                                                    *)
(*   docx, analysis, reply, outWritable   the arguments and environment of  *)
(*                  a call of add_comments_to_docx                          *)
(*   res            what the call returned and left at output_path          *)
(*   round          how many times an output has been annotated again       *)
(*   aiIn, aiOut    the backend's behaviour in a call of                    *)
(*                  analyze_contract_with_ai, and what the call returned    *)
(*   staging        the files of UPLOAD_FOLDER, each with the number of the *)
(*                  request on whose behalf it was last written             *)
(*   session        the caller's session: annotated_path when it is set     *)
(*   req            the analyze request being handled                       *)
(*   served         what the last download request answered                 *)
(*   timedOut       the numbers of the requests that ended in a conversion  *)
(*                  timeout                                                 *)
(*   folders        the UPLOAD_FOLDER of each worker process, each file     *)
(*                  with the requests whose uploads it derives from         *)
(*   handlers       the analyze request each thread of each worker is       *)
(*                  handling, and what its caller downloaded                *)
(***************************************************************************)
VARIABLES docx, analysis, reply, outWritable, res, round,
          aiIn, aiOut, staging, session, req, served, timedOut,
          folders, handlers

annotVars == <<docx, analysis, reply, outWritable, res, round>>
aiVars == <<aiIn, aiOut>>
reqVars == <<staging, session, req, served, timedOut>>
workerVars == <<folders, handlers>>
vars == <<docx, analysis, reply, outWritable, res, round,
          aiIn, aiOut, staging, session, req, served, timedOut,
          folders, handlers>>

NoResult ==
    [ret |-> "none", out |-> NoFile, paragraphs |-> <<>>, issue_matches |-> EmptyMap,
     matched |-> FALSE, insertions |-> <<>>]

(***************************************************************************)
(* Files of the staging directory.  A name is [pre, stem, ext]: pre counts  *)
(* the "reviewed_" prefixes, so that "reviewed_a.docx" is [1, "a", "docx"]. *)
(***************************************************************************)
\* largest number of "reviewed_" prefixes of an uploaded file name
MaxPrefix == 1
\* largest number of analyze requests in a behaviour
MaxRequests == 2

FileName(pre, stem, ext) == [pre |-> pre, stem |-> stem, ext |-> ext]
Stems == {"a"}
StagedNames == {FileName(pre, stem, ext) :
                   pre \in 0..(MaxPrefix + 1), stem \in Stems, ext \in {"doc", "docx"}}

NoAi == [t |-> "none", kind |-> "none", words |-> {}, text |-> <<>>]
NoAiResult == [tag |-> "none", cls |-> "none", raw |-> <<>>, value |-> "none", calls |-> 0]
NoResponse == [status |-> 0, cls |-> "none", complete |-> FALSE, flag |-> FALSE]

IdleRequest ==
    [n |-> 0, pc |-> "idle", name |-> FileName(0, "a", "docx"), content |-> NoFile,
     filepath |-> FileName(0, "a", "docx"), findings |-> Findings(0, 0),
     reply |-> [t |-> "exc", map |-> EmptyMap], a |-> NoAiResult, trace |-> <<>>,
     llm |-> 0, ann |-> "none", matcherFailed |-> FALSE, resp |-> NoResponse]

IdleAnnot ==
    /\ docx = NoFile
    /\ analysis = Findings(0, 0)
    /\ reply = [t |-> "exc", map |-> EmptyMap]
    /\ outWritable = TRUE
    /\ res = NoResult
    /\ round = 0

IdleAi == aiIn = NoAi /\ aiOut = NoAiResult

IdleRequests ==
    /\ staging = [name \in StagedNames |-> [file |-> NoFile, by |-> 0]]
    /\ session = [has |-> FALSE, path |-> FileName(0, "a", "docx")]
    /\ req = IdleRequest
    /\ served = [status |-> 0, by |-> 0]
    /\ timedOut = {}

(***************************************************************************)
(* gunicorn.conf.py: 2 worker processes of 2 threads each; preload_app is   *)
(* False, so each worker imports the application and makes its own          *)
(* UPLOAD_FOLDER (line 22).  A handler is a thread of a worker, numbered    *)
(* 1..workers * threads; the request it handles has the same number.        *)
(* A file of a folder is known by its provenance: doc is the request whose  *)
(* upload its body comes from and text the request whose upload the         *)
(* comments were computed from, 0 for none.                                 *)
(***************************************************************************)
workers == 2
threads == 2

Handlers == 1..(workers * threads)
WorkerOf(h) == ((h - 1) \div threads) + 1

UploadStems == {"a", "b"}
FolderNames == {FileName(pre, stem, ext) :
                   pre \in 0..1, stem \in UploadStems, ext \in {"doc", "docx"}}

NoOrigin == [doc |-> 0, text |-> 0]
NoSession == [has |-> FALSE, worker |-> 1, path |-> FileName(0, "a", "docx")]

IdleHandler ==
    [pc |-> "idle", name |-> FileName(0, "a", "docx"), filepath |-> FileName(0, "a", "docx"),
     text |-> 0, session |-> NoSession, got |-> NoOrigin]

IdleWorkers ==
    /\ folders = [w \in 1..workers |-> [name \in FolderNames |-> NoOrigin]]
    /\ handlers = [h \in Handlers |-> IdleHandler]

(***************************************************************************)
(* Inputs                                                                   *)
(***************************************************************************)
Analyses == {Findings(ni, nm) : ni \in 0..MaxIssues, nm \in 0..MaxMissing}

\* -1 is the backend's "no match"; MaxParas is out of range for every body
MappedValues == {JInt(n) : n \in (0 - 1)..MaxParas} \cup {JFloat(1), JStr}

FailureKinds ==
    {"nokey", "exc", "nochoices", "nocontent", "unparsable", "array", "string", "number"}

FailedReply(kind) == [t |-> kind, map |-> EmptyMap]

ObjectReplies(a) ==
    UNION {{[t |-> "object", map |-> m] : m \in [keys -> MappedValues]} :
              keys \in SUBSET ItemKeys(a)}

Replies(a) == {FailedReply(kind) : kind \in FailureKinds} \cup ObjectReplies(a)

\* containers the unpack, parse and patch steps treat differently
OneBody == <<BlankPara, TextPara>>

OddDocx ==
    LET d == PlainDocx(OneBody)
    IN  {[d EXCEPT !.exists = FALSE],
         [d EXCEPT !.zip = FALSE],
         [d EXCEPT !.bodyOk = FALSE],
         [d EXCEPT !.typesOk = FALSE],
         [d EXCEPT !.relsOk = FALSE],
         [d EXCEPT !.typesClose = FALSE],
         [d EXCEPT !.relsClose = FALSE],
         [d EXCEPT !.rels = <<>>],
         [d EXCEPT !.rels = <<Rel(FALSE, 1, TRUE, "other")>>],
         [d EXCEPT !.rels = <<Rel(TRUE, 1, FALSE, "other")>>],
         [d EXCEPT !.rels = <<Rel(TRUE, 2, TRUE, "other"), Rel(TRUE, 1, TRUE, "other")>>],
         [d EXCEPT !.rels = <<Rel(TRUE, 1, TRUE, "other"), Rel(TRUE, 2, FALSE, "other")>>],
         [d EXCEPT !.typesDecl = 1, !.comments = <<0>>,
                   !.rels = <<Rel(TRUE, 1, TRUE, "other"), Rel(TRUE, 2, TRUE, "comments")>>]}

(***************************************************************************)
(* Calls of the annotator on its own                                        *)
(***************************************************************************)
InitAnnot ==
    /\ \/ /\ docx \in {PlainDocx(body) : body \in Bodies}
          /\ analysis \in Analyses
          /\ reply \in Replies(analysis)
          /\ outWritable = TRUE
       \/ /\ docx \in OddDocx
          /\ analysis \in {Findings(1, 1), Findings(0, 0)}
          /\ reply \in {FailedReply("exc")}
          /\ outWritable \in BOOLEAN
    /\ res = NoResult
    /\ round = 0
    /\ IdleAi
    /\ IdleRequests
    /\ IdleWorkers

\* one call of add_comments_to_docx(docx_path, analysis, output_path)
AddComments ==
    /\ res.ret = "none"
    /\ res' = add_comments_to_docx(docx, analysis, reply, outWritable, NoFile)
    /\ UNCHANGED <<docx, analysis, reply, outWritable, round>>
    /\ UNCHANGED <<aiVars, reqVars, workerVars>>

\* the annotated output becomes the input of the next call
AnnotateAgain ==
    /\ res.ret = "true"
    /\ round < MaxRounds
    /\ docx' = res.out
    /\ res' = NoResult
    /\ round' = round + 1
    /\ UNCHANGED <<analysis, reply, outWritable>>
    /\ UNCHANGED <<aiVars, reqVars, workerVars>>

NextAnnot == AddComments \/ AnnotateAgain

SpecAnnot == InitAnnot /\ [][NextAnnot]_vars

(***************************************************************************)
(* Reading a body                                                           *)
(***************************************************************************)
\* where in the body a marker of the given kind and identifier occurs
MarkerPlaces(paras, kind, n) ==
    {<<i, j>> \in (DOMAIN paras) \X (1..(3 * (MaxIssues + MaxMissing + 2) * (MaxRounds + 3))) :
        j \in DOMAIN paras[i] /\ paras[i][j] = Marker(kind, n)}

\* the paragraph at 0-based position pos holds the three markers of comment n
HoldsComment(paras, pos, n) ==
    /\ pos + 1 \in DOMAIN paras
    /\ \A kind \in {"start", "end", "ref"} :
          \E j \in DOMAIN paras[pos + 1] : paras[pos + 1][j] = Marker(kind, n)

\* every marker of comment n in the body sits at 0-based position pos
OnlyIn(paras, pos, n) ==
    \A kind \in {"start", "end", "ref"} :
        \A place \in MarkerPlaces(paras, kind, n) : place[1] = pos + 1

WellFormedContainer(d) ==
    /\ d.exists /\ d.zip /\ d.bodyOk
    /\ d.typesOk /\ d.typesClose /\ d.relsOk /\ d.relsClose
    /\ \A j \in DOMAIN d.rels : d.rels[j].dq

Returned == res.ret # "none"

(***************************************************************************)
(* C1  The paragraph sequence returned by extract_paragraphs_from_docx has  *)
(* index values 0, 1, ..., n-1 in order, and no entry has empty text, also  *)
(* when empty paragraphs come before or between the non-empty ones.         *)
(***************************************************************************)
C1_IndicesDense ==
    (Returned /\ res.matched) =>
        \A j \in DOMAIN res.paragraphs :
            /\ res.paragraphs[j].index = j - 1
            /\ res.paragraphs[j].text # <<>>

(***************************************************************************)
(* C2  Fallback laws: when the matcher yields the empty map, the annotator  *)
(* returns true, puts the markers of every issue in paragraph 0 of the      *)
(* indexed (non-empty) paragraph sequence and the markers of every missing  *)
(* clause in the last paragraph of that sequence (paragraph 0 of the body   *)
(* when the sequence is empty), whatever empty paragraphs the body has.     *)
(***************************************************************************)
FirstIndexed == IF res.paragraphs # <<>> THEN res.paragraphs[1].element ELSE 0
LastIndexed ==
    IF res.paragraphs # <<>> THEN res.paragraphs[Len(res.paragraphs)].element ELSE 0

C2_FallbackAnchors ==
    (/\ Returned /\ round = 0
     /\ WellFormedContainer(docx) /\ outWritable /\ docx.paras # <<>>
     /\ res.issue_matches = EmptyMap) =>
        /\ res.ret = "true"
        /\ \A i \in 0..(analysis.issues - 1) :
              /\ HoldsComment(res.out.paras, FirstIndexed, i)
              /\ OnlyIn(res.out.paras, FirstIndexed, i)
        /\ \A i \in 0..(analysis.missing - 1) :
              /\ HoldsComment(res.out.paras, LastIndexed, analysis.issues + i)
              /\ OnlyIn(res.out.paras, LastIndexed, analysis.issues + i)

(***************************************************************************)
(* C3  Whenever add_comments_to_docx returns true for k findings, the       *)
(* comments part lists the identifiers 0..k-1 once each, in order, and the  *)
(* body holds exactly one range start, one range end and one reference for  *)
(* each of them and markers of no other identifier.                         *)
(***************************************************************************)
FindingCount == analysis.issues + analysis.missing

C3_IdentifiersExact ==
    res.ret = "true" =>
        /\ res.out.comments = [j \in 1..FindingCount |-> j - 1]
        /\ \A kind \in {"start", "end", "ref"} :
              \A n \in 0..(MaxIssues + MaxMissing + 1) :
                  Cardinality(MarkerPlaces(res.out.paras, kind, n)) =
                      IF n < FindingCount THEN 1 ELSE 0

(***************************************************************************)
(* C4  add_comments_to_docx never raises and always leaves a file at the    *)
(* output path: when a step fails the output is a byte-for-byte copy of the *)
(* input and the call returns false; it returns true only when the          *)
(* annotated container was written.                                         *)
(***************************************************************************)
C4_NeverRaisesAlwaysWrites ==
    Returned =>
        /\ res.ret \in {"true", "false"}
        /\ res.out.exists
        /\ res.ret = "false" => res.out = docx
        /\ res.ret = "true" => res.out.comments = [j \in 1..FindingCount |-> j - 1]

(***************************************************************************)
(* C5  match_issues_to_paragraphs never raises: a missing credential, a     *)
(* backend error, an empty or unparsable response, a response that is not a *)
(* flat object, or a mapped value that is not an integer each give the      *)
(* empty map, and the annotator goes on with the fallback anchors.          *)
(***************************************************************************)
MatcherFailure ==
    \/ reply.t # "object"
    \/ \E key \in ItemKeys(analysis) \cap DOMAIN reply.map : reply.map[key].t # "int"

C5_FailureGivesEmptyMap ==
    (Returned /\ res.matched /\ MatcherFailure) =>
        /\ res.issue_matches = EmptyMap
        /\ (WellFormedContainer(docx) /\ outWritable) => res.ret = "true"

(***************************************************************************)
(* C6  The map returned by match_issues_to_paragraphs holds an entry for a  *)
(* finding only if the mapped value equals the index of some paragraph of   *)
(* the input paragraph sequence; -1 and every other value are not stored.   *)
(* Stated here for the replies that map findings to integers only.          *)
(***************************************************************************)
C6_StoredIsParagraphIndex ==
    (Returned /\ \A key \in DOMAIN reply.map : reply.map[key].t = "int") =>
        \A key \in DOMAIN res.issue_matches :
            \E j \in DOMAIN res.paragraphs :
                res.issue_matches[key] = JInt(res.paragraphs[j].index)

(***************************************************************************)
(* C7  After any number of successful annotations the manifest declares the *)
(* comments part exactly once and exactly one relationship targets it; a    *)
(* relationship that is added carries an identifier one greater than the    *)
(* largest numeric rId suffix present and equal to no identifier present.   *)
(***************************************************************************)
CommentRels(rels) == {j \in DOMAIN rels : rels[j].target = "comments"}

LargestSuffix(rels) ==
    LET nums == {rels[j].n : j \in {i \in DOMAIN rels : rels[i].rid}}
    IN  IF nums = {} THEN 0 ELSE CHOOSE n \in nums : \A m \in nums : m <= n

C7_DeclaredAndLinkedOnce ==
    res.ret = "true" =>
        /\ res.out.typesDecl = 1
        /\ Cardinality(CommentRels(res.out.rels)) = 1
        /\ Len(res.out.rels) > Len(docx.rels) =>
              LET new == res.out.rels[Len(res.out.rels)]
              IN  /\ new.rid /\ new.n = LargestSuffix(docx.rels) + 1
                  /\ \A j \in DOMAIN docx.rels :
                        ~(docx.rels[j].rid /\ docx.rels[j].n = new.n)

(***************************************************************************)
(* C14  The target paragraph of every finding is the anchor map's entry for *)
(* it when the map has one; when it has none the target is paragraph 0 for  *)
(* an issue, and for a missing clause the last paragraph (0 when the        *)
(* document has none).  Stated here for the replies that map findings to   *)
(* integers only.                                                           *)
(***************************************************************************)
DefaultTarget(key) ==
    IF key[1] = "issue" \/ res.paragraphs = <<>> THEN JInt(0)
    ELSE JInt(Len(res.paragraphs) - 1)

C14_TargetsFollowMap ==
    (res.matched /\ \A key \in DOMAIN reply.map : reply.map[key].t = "int") =>
        \A j \in DOMAIN res.insertions :
            LET key == all_items(analysis)[j]
            IN  res.insertions[j].para =
                    IF key \in DOMAIN res.issue_matches
                    THEN res.issue_matches[key]
                    ELSE DefaultTarget(key)

(***************************************************************************)
(* C15  After the insertions of a call into one paragraph its markers are   *)
(* well formed: each insertion puts its range start first and its range end *)
(* and then its reference run last, the children the paragraph had (markers *)
(* of earlier annotations among them) stay in their order, each start       *)
(* precedes its end, and a comment inserted later encloses every comment    *)
(* inserted earlier.                                                        *)
(***************************************************************************)
\* replies that put every finding on one paragraph, and the failed reply,
\* after which issues go to the first paragraph and missing clauses to the last
GatheringReplies(a) ==
    {FailedReply("exc")}
        \cup {[t |-> "object", map |-> [key \in ItemKeys(a) |-> JInt(n)]] :
                 n \in 0..(MaxParas - 1)}

InitNest ==
    /\ docx \in {PlainDocx(body) : body \in Bodies}
    /\ analysis \in Analyses
    /\ reply \in GatheringReplies(analysis)
    /\ outWritable = TRUE
    /\ res = NoResult
    /\ round = 0
    /\ IdleAi
    /\ IdleRequests
    /\ IdleWorkers

SpecNest == InitNest /\ [][NextAnnot]_vars

\* the identifiers inserted into the paragraph at position p, in insertion order
InsertedAt(p) ==
    LET Hits(ins) == /\ InsertionApplies(ins.para, docx.paras)
                     /\ IsIndex(ins.para)
                     /\ ElementAt(ins.para, docx.paras) = p
        hits == SelectSeq(res.insertions, Hits)
    IN  [m \in DOMAIN hits |-> hits[m].id]

WellNested(before, after, ids) ==
    LET k == Len(ids)
        n == Len(before)
    IN  /\ Len(after) = n + 3 * k
        /\ SubSeq(after, k + 1, k + n) = before
        /\ \A m \in 1..k :
              /\ after[k + 1 - m] = Marker("start", ids[m])
              /\ after[k + n + 2 * m - 1] = Marker("end", ids[m])
              /\ after[k + n + 2 * m] = Marker("ref", ids[m])
        /\ \A m, l \in 1..k :
              m < l => /\ k + 1 - l < k + 1 - m
                       /\ k + n + 2 * m - 1 < k + n + 2 * l - 1

C15_MarkersNested ==
    res.ret = "true" =>
        /\ Len(res.out.paras) = Len(docx.paras)
        /\ \A p \in DOMAIN docx.paras :
              WellNested(docx.paras[p], res.out.paras[p], InsertedAt(p))

C15_SeveralOnAnnotated ==
    /\ res.ret = "true"
    /\ round >= 1
    /\ \E p \in DOMAIN docx.paras :
          /\ Len(InsertedAt(p)) >= 2
          /\ \E j \in DOMAIN docx.paras[p] : docx.paras[p][j].k = "start"

(***************************************************************************)
(* C16  Every marker that add_comments_to_docx inserts lands in a paragraph *)
(* of the indexed sequence (one with text after trimming), never in an      *)
(* empty paragraph, and an anchor i accepted from the matcher for an issue  *)
(* puts the markers of that issue in the paragraph that was labelled        *)
(* [Paragraph i] in the matcher prompt.  Stated for the first annotation of *)
(* a document and the replies that map findings to integers only.           *)
(***************************************************************************)
HasMarker(para) == \E j \in DOMAIN para : para[j].k # "t"

\* 0-based positions of the paragraphs the prompt labels [Paragraph i]
LabelledAs(i) ==
    {res.paragraphs[j].element : j \in {m \in DOMAIN res.paragraphs : res.paragraphs[m].index = i}}

C16_MarkersOnIndexedParagraphs ==
    (/\ res.ret = "true" /\ round = 0
     /\ \A key \in DOMAIN reply.map : reply.map[key].t = "int") =>
        /\ \A p \in DOMAIN res.out.paras :
              HasMarker(res.out.paras[p]) => strip(para_text(docx.paras[p])) # <<>>
        /\ \A i \in 0..(analysis.issues - 1) :
              <<"issue", i>> \in DOMAIN res.issue_matches =>
                  \E pos \in LabelledAs(res.issue_matches[<<"issue", i>>].v) :
                      HoldsComment(res.out.paras, pos, i) /\ OnlyIn(res.out.paras, pos, i)

(***************************************************************************)
(* Calls of the analysis engine on its own                                  *)
(***************************************************************************)
\* longest model output, in tokens
MaxText == 3

FailureKindsOfBackend == {"timeout", "rate_limit", "network", "service", "other"}

\* the words a failure of each kind brings with it; the rest of the message is free
OwnWords(kind) ==
    CASE kind = "timeout" -> {"timeout"}
      [] kind = "network" -> {"network"}
      [] kind = "rate_limit" -> {"rate_limit"}
      [] kind = "service" -> {"api"}
      [] OTHER -> {}

BackendFailures ==
    {[t |-> "exc", kind |-> kind, words |-> OwnWords(kind) \cup more, text |-> <<>>] :
        kind \in FailureKindsOfBackend, more \in SUBSET FailureWords}

Completion(text) == [t |-> "text", kind |-> "none", words |-> {}, text |-> text]

\* longest model output made of fences, labels, prose and one kind of payload
MaxFenced == 6

FencedTokens == {"FENCE", "json", "w", "OBJ"}

AiBehaviours ==
    {[NoAi EXCEPT !.t = kind] : kind \in {"nokey", "nochoices", "nocontent"}}
        \cup BackendFailures
        \cup {Completion(text) : text \in SeqsUpTo(Tokens, MaxText)}
        \cup {Completion(text) : text \in SeqsUpTo(FencedTokens, MaxFenced)}

InitAi ==
    /\ aiIn \in AiBehaviours
    /\ aiOut = NoAiResult
    /\ IdleAnnot
    /\ IdleRequests
    /\ IdleWorkers

\* one call of analyze_contract_with_ai(contract_text, party_type, comment_level)
Analyse ==
    /\ aiOut.tag = "none"
    /\ aiOut' = analyze_contract_with_ai(aiIn)
    /\ UNCHANGED <<aiIn, annotVars, reqVars, workerVars>>

NextAi == Analyse

SpecAi == InitAi /\ [][NextAi]_vars

(***************************************************************************)
(* C10  analyze_contract_with_ai puts every backend failure in exactly one *)
(* of RequestTimeout, RateLimited, NetworkError, BackendServiceError and    *)
(* UnknownAnalysisError; a rate-limit failure is always RateLimited and a   *)
(* timeout always RequestTimeout, whatever other words the message holds,   *)
(* and the call is made once, never retried.                                *)
(***************************************************************************)
FailureClasses ==
    {"RequestTimeout", "RateLimited", "NetworkError", "BackendServiceError",
     "UnknownAnalysisError"}

C10_ClassifiedByKind ==
    (aiOut.tag # "none" /\ aiIn.t = "exc") =>
        /\ aiOut.tag = "error"
        /\ aiOut.cls \in FailureClasses
        /\ aiIn.kind = "rate_limit" => aiOut.cls = "RateLimited"
        /\ aiIn.kind = "timeout" => aiOut.cls = "RequestTimeout"
        /\ aiOut.calls = 1

(***************************************************************************)
(* C11  analyze_contract_with_ai returns a result with every field of the   *)
(* requested schema or a tagged failure, never a partly populated result:   *)
(* model output whose de-fenced text is not one object of the schema gives  *)
(* a parse error that carries the unparsed text, and a response without     *)
(* choices or content gives the empty-response error with no parse.         *)
(***************************************************************************)
ConformingOutput(text) ==
    JsonParses(StripFences(text)) /\ JsonValue(StripFences(text)) = "OBJ"

C11_SchemaOrTaggedFailure ==
    aiOut.tag # "none" =>
        /\ aiOut.tag = "value" => aiOut.value = "OBJ"
        /\ (aiIn.t = "text" /\ ~ConformingOutput(aiIn.text)) =>
              /\ aiOut.tag = "error"
              /\ aiOut.cls = "AnalysisParseError"
              /\ aiOut.raw \in {aiIn.text, StripFences(aiIn.text)}
        /\ aiIn.t \in {"nochoices", "nocontent"} =>
              aiOut = AiError("EmptyModelResponse", <<>>)

(***************************************************************************)
(* C12  The parser selects the payload by strict precedence: when the model *)
(* output has a fence labelled json, the payload is exactly the content of  *)
(* the first such block, up to its closing fence (to the end of the text    *)
(* when the block is not closed); otherwise, when it has any fence, the     *)
(* content of the first fenced block; otherwise the whole text.  What       *)
(* stands before and after the block is discarded: prose, a labelled fenced *)
(* object and prose again give that object.                                 *)
(***************************************************************************)
\* the tokens from position first to the next fence, or to the end
BlockFrom(text, first) ==
    LET closing == {j \in Fences(text) : j >= first}
    IN  SubSeq(text, first, IF closing = {} THEN Len(text) ELSE Least(closing) - 1)

SelectedPayload(text) ==
    IF LabelledFences(text) # {} THEN BlockFrom(text, Least(LabelledFences(text)) + 2)
    ELSE IF Fences(text) # {} THEN BlockFrom(text, Least(Fences(text)) + 1)
    ELSE text

ProseAroundObject == <<"w", "FENCE", "json", "OBJ", "FENCE", "w">>

C12_PayloadByPrecedence ==
    (aiOut.tag # "none" /\ aiIn.t = "text") =>
        /\ aiOut = IF JsonParses(SelectedPayload(aiIn.text))
                   THEN AiValue(JsonValue(SelectedPayload(aiIn.text)))
                   ELSE AiError("AnalysisParseError", SelectedPayload(aiIn.text))
        /\ aiIn.text = ProseAroundObject => aiOut = AiValue("OBJ")

C12_ProseDiscarded ==
    /\ aiIn.t = "text"
    /\ aiIn.text = ProseAroundObject
    /\ aiOut = AiValue("OBJ")

(***************************************************************************)
(* The analyze and download requests (lines 608-686)                        *)
(* req.pc is the handler's position; req.trace lists the stages it has      *)
(* entered: "validate", "normalize", "extract", "analyse", "annotate".      *)
(***************************************************************************)
ALLOWED_EXTENSIONS == {"doc", "docx"}

\* line 102, for a file name with a dot
allowed_file(name) == name.ext \in ALLOWED_EXTENSIONS

ErrorResponse(status, cls) ==
    [status |-> status, cls |-> cls, complete |-> FALSE, flag |-> FALSE]
Success(flag) == [status |-> 200, cls |-> "none", complete |-> TRUE, flag |-> flag]

Finish(r, response) == [r EXCEPT !.pc = "done", !.resp = response]

\* what a caller uploads
UploadNames ==
    {FileName(pre, stem, ext) :
        pre \in 0..MaxPrefix, stem \in Stems, ext \in {"doc", "docx", "pdf"}}

UploadContents ==
    {PlainDocx(<<TextPara>>),
     PlainDocx(<<BlankPara, TextPara>>),
     PlainDocx(<<BlankPara>>),
     [PlainDocx(<<TextPara>>) EXCEPT !.zip = FALSE],
     [PlainDocx(<<TextPara>>) EXCEPT !.relsOk = FALSE]}

\* what the two backend calls of a request do
AnalysisBehaviours ==
    {Completion(<<value>>) : value \in Payloads}
        \cup {Completion(<<"w">>),
              [NoAi EXCEPT !.t = "nocontent"],
              [t |-> "exc", kind |-> "timeout", words |-> {"timeout"}, text |-> <<>>]}

MatcherBehaviours ==
    {FailedReply("exc"),
     [t |-> "object", map |-> EmptyMap],
     [t |-> "object", map |-> (<<"issue", 0>> :> JInt(0))],
     [t |-> "object", map |-> (<<"issue", 0>> :> JFloat(1))]}

\* lines 610-628: the request is checked before anything is stored
StartAnalyze ==
    /\ req.pc \in {"idle", "done"}
    /\ req.n < MaxRequests
    /\ \E name \in UploadNames, content \in UploadContents,
          hasFile \in BOOLEAN, party \in {"customer", "x"}, level \in {"moderate", "x"} :
          LET r == [IdleRequest EXCEPT !.n = req.n + 1, !.name = name,
                                       !.content = content, !.filepath = name,
                                       !.trace = <<"validate">>]
          IN  req' = IF ~hasFile THEN Finish(r, ErrorResponse(400, "NoFile"))
                     ELSE IF ~allowed_file(name)
                     THEN Finish(r, ErrorResponse(400, "InvalidFileType"))
                     ELSE IF party \notin {"vendor", "customer"}
                     THEN Finish(r, ErrorResponse(400, "InvalidPartyType"))
                     ELSE IF level \notin {"friendly", "moderate", "aggressive"}
                     THEN Finish(r, ErrorResponse(400, "InvalidCommentLevel"))
                     ELSE [r EXCEPT !.pc = "save"]
    /\ UNCHANGED <<staging, session, served, timedOut, annotVars, aiVars, workerVars>>

\* lines 632-637: file.save(filepath)
SaveUpload ==
    /\ req.pc = "save"
    /\ staging' = [staging EXCEPT ![req.name] = [file |-> req.content, by |-> req.n]]
    /\ req' = [req EXCEPT !.pc = IF req.name.ext = "doc" THEN "convert" ELSE "extract"]
    /\ UNCHANGED <<session, served, timedOut, annotVars, aiVars, workerVars>>

(***************************************************************************)
(* convert_doc_to_docx (lines 105-120).  The converter is an external       *)
(* process: it ends with status 0, with a nonzero status, or is killed on   *)
(* the timeout, and in each case it has or has not written the .docx next   *)
(* to the upload (wrote).  What it writes is a well-formed container with   *)
(* the paragraphs of the upload.                                            *)
(***************************************************************************)
ConvertedName(name) == FileName(name.pre, name.stem, "docx")

ConvertDoc ==
    /\ req.pc = "convert"
    /\ \E exit \in {"zero", "nonzero", "timeout"}, wrote \in BOOLEAN :
          LET docx_path == ConvertedName(req.filepath)
              after == IF wrote
                       THEN [staging EXCEPT ![docx_path] =
                                [file |-> PlainDocx(req.content.paras), by |-> req.n]]
                       ELSE staging
              r == [req EXCEPT !.trace = Append(@, "normalize")]
          IN  /\ staging' = after
              /\ req' = IF exit = "timeout"
                        THEN Finish(r, ErrorResponse(500, "ConversionTimeout"))
                        ELSE IF exit = "nonzero"
                        THEN Finish(r, ErrorResponse(500, "ConversionFailed"))
                        ELSE IF after[docx_path].file.exists
                        THEN [r EXCEPT !.filepath = docx_path, !.pc = "extract"]
                        ELSE Finish(r, ErrorResponse(500, "ConversionOutputMissing"))
              /\ timedOut' = IF exit = "timeout" THEN timedOut \cup {req.n} ELSE timedOut
    /\ UNCHANGED <<session, served, annotVars, aiVars, workerVars>>

(***************************************************************************)
(* extract_text_from_docx and extract_text_manually (lines 123-154): pandoc *)
(* first, and when it fails the body is read from the archive.              *)
(***************************************************************************)
ManualFails(d) == ~d.zip \/ ~d.bodyOk
\* contract_text.strip() is not empty
HasText(d) == \E j \in DOMAIN d.paras : strip(para_text(d.paras[j])) # <<>>

ExtractText ==
    /\ req.pc = "extract"
    /\ \E pandoc \in BOOLEAN :
          LET d == staging[req.filepath].file
              r == [req EXCEPT !.trace = Append(@, "extract")]
          IN  /\ pandoc => ~ManualFails(d)
              /\ req' = IF ~pandoc /\ ManualFails(d)
                        THEN Finish(r, ErrorResponse(500, "ExtractionFailed"))
                        ELSE IF ~HasText(d)
                        THEN Finish(r, ErrorResponse(400, "NoExtractableText"))
                        ELSE [r EXCEPT !.pc = "analyse"]
    /\ UNCHANGED <<staging, session, served, timedOut, annotVars, aiVars, workerVars>>

(***************************************************************************)
(* lines 647-650.  'error' in analysis holds for an error result and for a  *)
(* parsed object with an "error" key, and raises TypeError for a number,    *)
(* which the handler of line 671 turns into a 500.                          *)
(***************************************************************************)
HasErrorKey(a) == a.tag = "error" \/ a.value = "ERR"

AnalyseContract ==
    /\ req.pc = "analyse"
    /\ \E ai \in AnalysisBehaviours :
          LET a == analyze_contract_with_ai(ai)
              r == [req EXCEPT !.trace = Append(@, "analyse"), !.a = a, !.llm = @ + a.calls]
          IN  req' = IF HasErrorKey(a)
                     THEN Finish(r, ErrorResponse(500, IF a.tag = "error" THEN a.cls ELSE "ModelError"))
                     ELSE IF a.value = "NUM"
                     THEN Finish(r, ErrorResponse(500, "TypeError"))
                     ELSE [r EXCEPT !.pc = "annotate"]
    /\ UNCHANGED <<staging, session, served, timedOut, annotVars, aiVars, workerVars>>

(***************************************************************************)
(* lines 652-669: the annotated copy, the session, the response.  Only a    *)
(* parsed object can take the three response fields of lines 665-667; for   *)
(* an array or a string the assignment raises TypeError after the session   *)
(* has been set.                                                            *)
(***************************************************************************)
AnnotatedName(name) == FileName(name.pre + 1, name.stem, "docx")

FindingsOf(a, drawn) == IF a.value = "OBJ" THEN drawn ELSE Findings(0, 0)

AnnotateAndRespond ==
    /\ req.pc = "annotate"
    /\ \E drawn \in {Findings(1, 1)}, backend \in MatcherBehaviours :
          LET annotated_path == AnnotatedName(req.name)
              source == staging[req.filepath].file
              found == FindingsOf(req.a, drawn)
              call == add_comments_to_docx(source, found, backend, TRUE,
                                           staging[annotated_path].file)
              r == [req EXCEPT !.trace = Append(@, "annotate"),
                               !.findings = found,
                               !.reply = backend,
                               !.ann = call.ret,
                               !.matcherFailed =
                                   /\ call.matched
                                   /\ call.paragraphs # <<>>
                                   /\ MatcherRaises(call.paragraphs, found, backend)]
          IN  /\ staging' = IF call.ret = "raised" THEN staging
                            ELSE [staging EXCEPT ![annotated_path] =
                                     [file |-> call.out, by |-> req.n]]
              /\ session' = IF call.ret = "raised" THEN session
                            ELSE [has |-> TRUE, path |-> annotated_path]
              /\ req' = IF call.ret = "raised"
                        THEN Finish(r, ErrorResponse(500, "AnnotatorRaised"))
                        ELSE IF req.a.value \in {"ARR", "STR"}
                        THEN Finish(r, ErrorResponse(500, "TypeError"))
                        ELSE Finish(r, Success(call.ret = "true"))
    /\ UNCHANGED <<served, timedOut, annotVars, aiVars, workerVars>>

\* lines 675-686
Download ==
    /\ req.pc \in {"idle", "done"}
    /\ served' = IF session.has /\ staging[session.path].file.exists
                 THEN [status |-> 200, by |-> staging[session.path].by]
                 ELSE [status |-> 404, by |-> 0]
    /\ UNCHANGED <<staging, session, req, timedOut, annotVars, aiVars, workerVars>>

InitRequests == IdleRequests /\ IdleAnnot /\ IdleAi /\ IdleWorkers

NextRequests ==
    \/ StartAnalyze
    \/ SaveUpload
    \/ ConvertDoc
    \/ ExtractText
    \/ AnalyseContract
    \/ AnnotateAndRespond
    \/ Download

SpecRequests == InitRequests /\ [][NextRequests]_vars

(***************************************************************************)
(* C8  In an analyze request the stages run in the order validate,          *)
(* normalize, extract, analyse, annotate; a failure at normalization, at    *)
(* extraction (empty text included) or at analysis ends the request with an *)
(* error response and no later stage runs (no backend call after a failed   *)
(* earlier stage, no annotation), whereas a failure in matching or in       *)
(* annotation still yields the complete successful response, with           *)
(* annotated_available false when the annotation failed.                    *)
(* An analysis counts as failed here when it returned an error or a value   *)
(* that is not a JSON object.                                               *)
(***************************************************************************)
StageRank(stage) ==
    CASE stage = "validate" -> 1
      [] stage = "normalize" -> 2
      [] stage = "extract" -> 3
      [] stage = "analyse" -> 4
      [] OTHER -> 5

InOrder(trace) ==
    \A i, j \in DOMAIN trace : i < j => StageRank(trace[i]) < StageRank(trace[j])

LastStage(trace) == trace[Len(trace)]

AnalysisFailed(a) == a.tag = "error" \/ a.value \in {"ARR", "STR", "NUM"}

C8_StagesAndPropagation ==
    /\ InOrder(req.trace)
    /\ req.pc = "done" =>
          /\ req.resp.cls \in {"ConversionTimeout", "ConversionFailed", "ConversionOutputMissing"}
                => (LastStage(req.trace) = "normalize" /\ req.llm = 0 /\ req.resp.status >= 400)
          /\ req.resp.cls \in {"ExtractionFailed", "NoExtractableText"}
                => (LastStage(req.trace) = "extract" /\ req.llm = 0 /\ req.resp.status >= 400)
          /\ (StageRank(LastStage(req.trace)) >= 4 /\ AnalysisFailed(req.a))
                => (LastStage(req.trace) = "analyse" /\ req.resp.status >= 400)
          /\ req.matcherFailed
                => (req.resp.status = 200 /\ req.resp.complete)
          /\ req.ann = "false"
                => req.resp = Success(FALSE)

(***************************************************************************)
(* C9  When the conversion subprocess exceeds its timeout the request ends  *)
(* with the conversion-timeout error, and no download of the caller's       *)
(* session serves a file written on behalf of that request, whatever        *)
(* requests came before it in the session.                                  *)
(***************************************************************************)
C9_TimeoutLeavesNothingServed ==
    /\ (req.pc = "done" /\ req.n \in timedOut) =>
          req.resp = ErrorResponse(500, "ConversionTimeout")
    /\ served.status = 200 => served.by \notin timedOut

(***************************************************************************)
(* Requests handled at the same time (lines 630-662, 675-686).  Each step   *)
(* is one access of a handler to the folder of its worker; between two      *)
(* steps of a handler the other handlers run.  Uploads have one of the      *)
(* names ConcurrentUploads; nothing removes a file from the folder.         *)
(***************************************************************************)
ConcurrentUploads ==
    {FileName(0, "a", "docx"), FileName(0, "a", "doc"), FileName(0, "b", "docx")}

\* lines 632-634: file.save(os.path.join(UPLOAD_FOLDER, filename))
ReceiveUpload ==
    /\ \E h \in Handlers, name \in ConcurrentUploads :
          /\ handlers[h].pc = "idle"
          /\ folders' = [folders EXCEPT ![WorkerOf(h)][name] = [doc |-> h, text |-> 0]]
          /\ handlers' = [handlers EXCEPT ![h] =
                [IdleHandler EXCEPT !.pc = IF name.ext = "doc" THEN "convert" ELSE "extract",
                                    !.name = name, !.filepath = name]]
    /\ UNCHANGED <<annotVars, aiVars, reqVars>>

\* lines 636-637, 105-115: soffice writes the .docx next to the file it reads
ConvertUpload ==
    /\ \E h \in Handlers :
          LET docx_path == ConvertedName(handlers[h].filepath)
          IN  /\ handlers[h].pc = "convert"
              /\ folders' = [folders EXCEPT ![WorkerOf(h)][docx_path] =
                                folders[WorkerOf(h)][handlers[h].filepath]]
              /\ handlers' = [handlers EXCEPT ![h].filepath = docx_path, ![h].pc = "extract"]
    /\ UNCHANGED <<annotVars, aiVars, reqVars>>

\* lines 640-650: the text read from filepath, and the analysis made of it
ReadAndAnalyse ==
    /\ \E h \in Handlers :
          /\ handlers[h].pc = "extract"
          /\ handlers' = [handlers EXCEPT ![h].text = folders[WorkerOf(h)][handlers[h].filepath].doc,
                                          ![h].pc = "annotate"]
    /\ UNCHANGED <<folders, annotVars, aiVars, reqVars>>

\* lines 653-662: the copy of filepath with the comments of the analysis
WriteAnnotated ==
    /\ \E h \in Handlers :
          LET annotated_path == AnnotatedName(handlers[h].name)
          IN  /\ handlers[h].pc = "annotate"
              /\ folders' = [folders EXCEPT ![WorkerOf(h)][annotated_path] =
                                [doc |-> folders[WorkerOf(h)][handlers[h].filepath].doc,
                                 text |-> handlers[h].text]]
              /\ handlers' = [handlers EXCEPT
                                ![h].session = [has |-> TRUE, worker |-> WorkerOf(h),
                                                path |-> annotated_path],
                                ![h].pc = "done"]
    /\ UNCHANGED <<annotVars, aiVars, reqVars>>

\* lines 675-686: the caller of request h downloads what its session names
DownloadAnnotated ==
    /\ \E h \in Handlers :
          /\ handlers[h].pc = "done"
          /\ handlers[h].session.has
          /\ handlers' = [handlers EXCEPT
                ![h].got = folders[handlers[h].session.worker][handlers[h].session.path],
                ![h].pc = "served"]
    /\ UNCHANGED <<folders, annotVars, aiVars, reqVars>>

InitWorkers == IdleWorkers /\ IdleAnnot /\ IdleAi /\ IdleRequests

NextWorkers ==
    \/ ReceiveUpload
    \/ ConvertUpload
    \/ ReadAndAnalyse
    \/ WriteAnnotated
    \/ DownloadAnnotated

SpecWorkers == InitWorkers /\ [][NextWorkers]_vars

(***************************************************************************)
(* C13  Requests handled at the same time do not interfere: under every     *)
(* interleaving the annotated output of a finished request, and what its    *)
(* caller downloads, derive from that request's own upload only.            *)
(***************************************************************************)
OwnDocument(h) == [doc |-> h, text |-> h]

C13_RequestsDoNotInterfere ==
    \A h \in Handlers :
        /\ handlers[h].pc = "done" =>
              folders[handlers[h].session.worker][handlers[h].session.path] = OwnDocument(h)
        /\ handlers[h].pc = "served" => handlers[h].got = OwnDocument(h)

====
